---------------------------- MODULE Spec2Model ----------------------------
(***************************************************************************)
(* Model of the MFCC extraction notebook (examples/notebooks/              *)
(* mfcc-extraction.ipynb): the processing block that opens a sequential    *)
(* wave reader and a matrix writer, and for every (key, wav) pair of the   *)
(* reader filters on duration, asserts the sample rate, downsamples,       *)
(* mixes down to mono, computes MFCC features, standardizes them and       *)
(* writes them under the key.                                              *)
(***************************************************************************)
EXTENDS Integers, Sequences, FiniteSets

VARIABLES
    min_duration,   \* opts.min_duration, a rational <<num, den>> in seconds
    permissive,     \* whether rspec carries the permissive (p) option
    source,         \* the entries of the scp table behind rspec, in order
    pos,            \* number of entries the reader has consumed
    reader,         \* SequentialWaveReader: "unopened" | "open" | "closed"
    writer,         \* MatrixWriter: "unopened" | "open" | "closed"
    pc,             \* position of the processing block
    key,            \* loop variable key (index of the entry in the table)
    wav,            \* loop variable wav: [samp_freq, data]
    s,              \* channel x sample matrix (a sequence of channels)
    m,              \* mono signal (a sequence of rationals)
    f,              \* feature matrix (a sequence of rows)
    sink,           \* records written to the archive, in order
    err             \* the exception leaving the block, "none" if none

vars == <<min_duration, permissive, source, pos, reader, writer, pc,
          key, wav, s, m, f, sink, err>>

---------------------------------------------------------------------------
(* Bounds of the model *)

\* longest table of small entries
MaxUtts == 3

---------------------------------------------------------------------------
(* Configuration *)

\* mfcc_opts.frame_opts.samp_freq = 8000 ; sf = mfcc_opts.frame_opts.samp_freq
sf == 8000

\* frame length and shift in milliseconds, number of cepstral coefficients
FrameLengthMs == 25
FrameShiftMs == 10
NumCeps == 13

\* frame length and shift in samples at the target rate (200 and 80)
WindowSize == (sf * FrameLengthMs) \div 1000
WindowShift == (sf * FrameShiftMs) \div 1000

\* values of --min-duration: the registered default 0.0, and 0.025 s
MinDurations == { <<0, 1>>, <<1, 40>> }

---------------------------------------------------------------------------
(* Input waveforms.  An entry of the table is a descriptor: whether the    *)
(* file can be loaded, its sample rate, channel count, sample count and    *)
(* the pattern its samples follow.                                         *)

Entry(rd, rate, nch, n, pat) ==
    [readable |-> rd, samp_freq |-> rate, nch |-> nch, n |-> n, pat |-> pat]

SmallEntries ==
    { Entry(FALSE, 16000, 1, 400, 1),   \* file that cannot be loaded
      Entry(TRUE,   8000, 1,   0, 1),   \* zero samples
      Entry(TRUE,   8000, 1, 200, 3),   \* exactly one frame, 0.025 s
      Entry(TRUE,  16000, 1, 399, 1),   \* k = 2, odd length, below 0.025 s
      Entry(TRUE,  16000, 2, 561, 2),   \* k = 2, stereo, two frames
      Entry(TRUE,   4000, 1, 300, 1) }  \* rate below sf

\* entries of one-line tables: the recorded run (1 x 23001 at 16 kHz), a
\* 2 second 16 kHz buffer, lengths around one and two frames, a decimation
\* by 3 and a rate that sf does not divide
SingleEntries ==
    { Entry(TRUE, 16000, 1, 23001, 1),
      Entry(TRUE, 16000, 1, 32000, 2),
      Entry(TRUE, 16000, 1, 23000, 3),
      Entry(TRUE,  8000, 1, 11500, 1),
      Entry(TRUE,  8000, 2,   279, 1),
      Entry(TRUE,  8000, 1,   280, 2),
      Entry(TRUE,  8000, 1,   199, 2),
      Entry(TRUE,  8000, 2,     3, 2),
      Entry(TRUE, 24000, 2,   601, 3),
      Entry(TRUE, 12000, 1,   450, 2) }

RECURSIVE SeqsUpTo(_, _)
SeqsUpTo(S, n) ==
    IF n = 0 THEN { <<>> }
    ELSE LET shorter == SeqsUpTo(S, n - 1)
         IN  shorter \cup { Append(q, e) : q \in shorter, e \in S }

\* tables: up to MaxUtts small entries, or one line (as testfile.scp of the
\* notebook)
Sources == SeqsUpTo(SmallEntries, MaxUtts) \cup { <<e>> : e \in SingleEntries }

\* sample i (from 1) of channel c (from 1) of a waveform of pattern pat
Sample(pat, c, i) == ((i * (pat + c) + c) % 7) - 3

\* WaveData: the channel x sample matrix and the sample rate of an entry
Load(e) ==
    [samp_freq |-> e.samp_freq,
     data |-> [c \in 1..e.nch |-> [i \in 1..e.n |-> Sample(e.pat, c, i)]]]

NoWave == [samp_freq |-> 0, data |-> <<>>]

---------------------------------------------------------------------------
(* Pure steps of the loop body *)

\* number of columns of a matrix given as a sequence of rows (channels)
NumCols(mat) == IF Len(mat) = 0 THEN 0 ELSE Len(mat[1])

\* wav.duration: sample count / sample rate, as a rational <<num, den>>
Duration(w) == <<NumCols(w.data), w.samp_freq>>

\* a < b for rationals with positive denominators
RatLess(a, b) == a[1] * b[2] < b[1] * a[2]

\* variant: the threshold test written with <= instead of <
BelowOrAtMinDuration(w, md) == ~RatLess(md, Duration(w))

\* if wav.duration < opts.min_duration
BelowMinDuration(w, md) == RatLess(Duration(w), md)

\* assert(wav.samp_freq >= sf) ; assert(wav.samp_freq % sf == 0)
RateAtLeast(w) == w.samp_freq >= sf
RateDivides(w) == w.samp_freq % sf = 0

\* variant: the decimation step left at 1 (no downsampling)
StepOne(w) == 1

\* int(wav.samp_freq / sf)
Step(w) == w.samp_freq \div sf

\* variant: the slice length rounded down
SliceLenFloor(n, k) == n \div k

\* len(range(0, n, k)): the length of the slice [::k] of n items
SliceLen(n, k) == (n + k - 1) \div k

\* s[:, ::k]: per channel, the items at 0-based indices 0, k, 2k, ...
Downsample(mat, k) ==
    [c \in 1..Len(mat) |->
        [j \in 1..SliceLen(Len(mat[c]), k) |-> mat[c][(j - 1) * k + 1]]]

RECURSIVE GCD(_, _)
GCD(a, b) == IF b = 0 THEN a ELSE GCD(b, a % b)

Abs(x) == IF x < 0 THEN -x ELSE x

\* the rational num / den (den > 0) in lowest terms
Rat(num, den) ==
    LET g == GCD(Abs(num), den)
    IN  [num |-> num \div g, den |-> den \div g]

RECURSIVE ColumnSum(_, _, _)
ColumnSum(mat, j, c) ==
    IF c = 0 THEN 0 ELSE mat[c][j] + ColumnSum(mat, j, c - 1)

\* variant: the mean taken with integer division
MixDownIntDiv(mat) ==
    [j \in 1..NumCols(mat) |->
        [num |-> ColumnSum(mat, j, Len(mat)) \div Len(mat), den |-> 1]]

\* mean(s, axis=0): per sample position, the sum over channels divided by
\* the channel count
MixDown(mat) ==
    [j \in 1..NumCols(mat) |-> Rat(ColumnSum(mat, j, Len(mat)), Len(mat))]

\* number of analysis frames of a signal of n samples: a trailing partial
\* frame is dropped, a signal shorter than one frame has none
NumFrames(n) ==
    IF n < WindowSize THEN 0 ELSE 1 + (n - WindowSize) \div WindowShift

\* mfcc.compute_features(m, sf, 1.0): one row of NumCeps coefficients per
\* frame; a coefficient is kept symbolically as (frame, index)
ComputeFeatures(sig) ==
    [t \in 1..NumFrames(Len(sig)) |->
        [c \in 1..NumCeps |-> [frame |-> t - 1, ceps |-> c - 1, std |-> FALSE]]]

\* scale(f) cannot normalize a matrix without rows
ScaleFails(mat) == Len(mat) = 0

\* scale(f): every value rescaled per column; the shape is kept
Scale(mat) ==
    [t \in 1..Len(mat) |->
        [c \in 1..Len(mat[t]) |-> [mat[t][c] EXCEPT !.std = TRUE]]]

---------------------------------------------------------------------------
(* The processing block *)

Init ==
    /\ min_duration \in MinDurations
    /\ permissive \in BOOLEAN
    /\ source \in Sources
    /\ pos = 0
    /\ reader = "unopened"
    /\ writer = "unopened"
    /\ pc = "start"
    /\ key = 0
    /\ wav = NoWave
    /\ s = <<>>
    /\ m = <<>>
    /\ f = <<>>
    /\ sink = <<>>
    /\ err = "none"

\* with SequentialWaveReader(rspec) as reader
OpenReader ==
    /\ pc = "start"
    /\ reader' = "open"
    /\ pc' = "open_writer"
    /\ UNCHANGED <<min_duration, permissive, source, pos, writer, key, wav,
                   s, m, f, sink, err>>

\* MatrixWriter(wspec) as writer
OpenWriter ==
    /\ pc = "open_writer"
    /\ writer' = "open"
    /\ pc' = "iter"
    /\ UNCHANGED <<min_duration, permissive, source, pos, reader, key, wav,
                   s, m, f, sink, err>>

\* a step of the body raises: the with statement is left through its exits
Raise(e) ==
    /\ err' = e
    /\ pc' = "exit_writer"

\* entries the reader passes over before position p: in permissive mode
\* the ones that fail to load
RECURSIVE SkipUnreadable(_, _)
SkipUnreadable(src, p) ==
    IF p < Len(src) /\ ~src[p + 1].readable
    THEN SkipUnreadable(src, p + 1)
    ELSE p

\* the position the reader stands on when it is asked for its next pair
ReaderFront(src, p, perm) == IF perm THEN SkipUnreadable(src, p) ELSE p

\* variant: an entry that fails to load is passed over whatever the mode
ReaderNextSwallows ==
    /\ pc = "iter"
    /\ LET p == SkipUnreadable(source, pos)
       IN  IF p = Len(source)
           THEN /\ pos' = p
                /\ pc' = "exit_writer"
                /\ UNCHANGED <<key, wav>>
           ELSE /\ pos' = p + 1
                /\ key' = p + 1
                /\ wav' = Load(source[p + 1])
                /\ pc' = "duration"
    /\ UNCHANGED <<min_duration, permissive, source, reader, writer,
                   s, m, f, sink, err>>

\* for key, wav in reader: done() / key() / value() / next()
ReaderNext ==
    /\ pc = "iter"
    /\ LET p == ReaderFront(source, pos, permissive)
       IN  IF p = Len(source)
           THEN \* done(): the loop ends, the block is left normally
                /\ pos' = p
                /\ pc' = "exit_writer"
                /\ UNCHANGED <<key, wav, err>>
           ELSE IF ~source[p + 1].readable
           THEN \* value() fails to load the object: KaldiFatalError
                /\ pos' = p
                /\ Raise("KaldiFatalError")
                /\ UNCHANGED <<key, wav>>
           ELSE /\ pos' = p + 1
                /\ key' = p + 1
                /\ wav' = Load(source[p + 1])
                /\ pc' = "duration"
                /\ UNCHANGED err
    /\ UNCHANGED <<min_duration, permissive, source, reader, writer,
                   s, m, f, sink>>

\* variant: the continue is missing, every utterance goes on
CheckDurationFallsThrough ==
    /\ pc = "duration"
    /\ pc' = "assert"
    /\ UNCHANGED <<min_duration, permissive, source, pos, reader, writer,
                   key, wav, s, m, f, sink, err>>

\* if wav.duration < opts.min_duration: continue
CheckDuration ==
    /\ pc = "duration"
    /\ pc' = IF BelowMinDuration(wav, min_duration) THEN "iter" ELSE "assert"
    /\ UNCHANGED <<min_duration, permissive, source, pos, reader, writer,
                   key, wav, s, m, f, sink, err>>

\* variant: an unsupported rate skips the utterance instead of raising
AssertRateSkips ==
    /\ pc = "assert"
    /\ IF RateAtLeast(wav) /\ RateDivides(wav)
       THEN /\ s' = wav.data
            /\ pc' = "downsample"
       ELSE /\ pc' = "iter"
            /\ UNCHANGED s
    /\ UNCHANGED <<min_duration, permissive, source, pos, reader, writer,
                   key, wav, m, f, sink, err>>

\* the two assertions on the rate, then s = wav.data()
AssertRate ==
    /\ pc = "assert"
    /\ IF RateAtLeast(wav) /\ RateDivides(wav)
       THEN /\ s' = wav.data
            /\ pc' = "downsample"
            /\ UNCHANGED err
       ELSE /\ Raise("AssertionError")
            /\ UNCHANGED s
    /\ UNCHANGED <<min_duration, permissive, source, pos, reader, writer,
                   key, wav, m, f, sink>>

\* s = s[:,::int(wav.samp_freq / sf)]
DownsampleStep ==
    /\ pc = "downsample"
    /\ s' = Downsample(s, Step(wav))
    /\ pc' = "mixdown"
    /\ UNCHANGED <<min_duration, permissive, source, pos, reader, writer,
                   key, wav, m, f, sink, err>>

\* m = SubVector(mean(s, axis=0))
MixDownStep ==
    /\ pc = "mixdown"
    /\ m' = MixDown(s)
    /\ pc' = "features"
    /\ UNCHANGED <<min_duration, permissive, source, pos, reader, writer,
                   key, wav, s, f, sink, err>>

\* f = mfcc.compute_features(m, sf, 1.0)
ComputeStep ==
    /\ pc = "features"
    /\ f' = ComputeFeatures(m)
    /\ pc' = "scale"
    /\ UNCHANGED <<min_duration, permissive, source, pos, reader, writer,
                   key, wav, s, m, sink, err>>

\* variant: a matrix without rows is passed on unscaled
ScaleStepLenient ==
    /\ pc = "scale"
    /\ f' = Scale(f)
    /\ pc' = "write"
    /\ UNCHANGED <<min_duration, permissive, source, pos, reader, writer,
                   key, wav, s, m, sink, err>>

\* f = SubMatrix(scale(f))
ScaleStep ==
    /\ pc = "scale"
    /\ IF ScaleFails(f)
       THEN /\ Raise("ValueError")
            /\ UNCHANGED f
       ELSE /\ f' = Scale(f)
            /\ pc' = "write"
            /\ UNCHANGED err
    /\ UNCHANGED <<min_duration, permissive, source, pos, reader, writer,
                   key, wav, s, m, sink>>

\* writer[key] = f
WriteStep ==
    /\ pc = "write"
    /\ sink' = Append(sink, [key |-> key, value |-> f])
    /\ pc' = "iter"
    /\ UNCHANGED <<min_duration, permissive, source, pos, reader, writer,
                   key, wav, s, m, f, err>>

\* variant: the writer is closed by hand after the loop, not by the with
\* statement, so an exception leaves it open
ExitWriterOnSuccess ==
    /\ pc = "exit_writer"
    /\ writer' = IF err = "none" THEN "closed" ELSE writer
    /\ pc' = "exit_reader"
    /\ UNCHANGED <<min_duration, permissive, source, pos, reader, key, wav,
                   s, m, f, sink, err>>

\* leaving the with statement: the writer's __exit__ runs first
ExitWriter ==
    /\ pc = "exit_writer"
    /\ writer' = "closed"
    /\ pc' = "exit_reader"
    /\ UNCHANGED <<min_duration, permissive, source, pos, reader, key, wav,
                   s, m, f, sink, err>>

\* then the reader's __exit__; the exception, if any, reaches the caller
ExitReader ==
    /\ pc = "exit_reader"
    /\ reader' = "closed"
    /\ pc' = IF err = "none" THEN "done" ELSE "raised"
    /\ UNCHANGED <<min_duration, permissive, source, pos, writer, key, wav,
                   s, m, f, sink, err>>

Next ==
    \/ OpenReader
    \/ OpenWriter
    \/ ReaderNext
    \/ CheckDuration
    \/ AssertRate
    \/ DownsampleStep
    \/ MixDownStep
    \/ ComputeStep
    \/ ScaleStep
    \/ WriteStep
    \/ ExitWriter
    \/ ExitReader

Spec == Init /\ [][Next]_vars

---------------------------------------------------------------------------
(* Properties *)

\* positions of the loop body where s holds the downsampled matrix of wav
DownsampledAt == { "mixdown", "features", "scale", "write" }

\* positions where m holds the mono signal of wav
MixedAt == { "features", "scale", "write" }

\* positions of the loop body after the duration test has let wav through
PipelineAt == { "assert", "downsample", "mixdown", "features", "scale", "write" }

\* positions of the loop body after the rate assertions have passed
ResampleAt == { "downsample", "mixdown", "features", "scale", "write" }

\* positions inside the with statement
BlockAt == { "iter", "duration" } \cup PipelineAt

\* positions after the with statement has been left
LeftAt == { "done", "raised" }

SinkKeys == { sink[i].key : i \in 1..Len(sink) }

InputLength(w) == NumCols(w.data)

\* C1 as stated: after the downsampling step every channel of s has
\* floor(input_length / k) samples, k = samp_freq / sf.
C1_FloorLength ==
    pc \in DownsampledAt =>
        \A c \in 1..Len(s) : Len(s[c]) = InputLength(wav) \div Step(wav)

\* C1 as amended: after the downsampling step every channel of s has
\* ceil(input_length / k) samples: the least q with q * k >= input_length,
\* which is floor(input_length / k) when k divides the length and one more
\* otherwise.
C1_CeilLength ==
    pc \in DownsampledAt =>
        /\ wav.samp_freq = Step(wav) * sf
        /\ Step(wav) >= 1
        /\ Len(s) = Len(wav.data)
        /\ \A c \in 1..Len(s) :
              LET n == InputLength(wav)
                  k == Step(wav)
                  q == Len(s[c])
              IN  /\ q * k >= n
                  /\ (q - 1) * k < n \/ (q = 0 /\ n = 0)
                  /\ q = IF n % k = 0 THEN n \div k ELSE n \div k + 1

\* C1 witness: a waveform whose length is not a multiple of k > 1 has been
\* downsampled.
C1_Witness ==
    /\ pc = "mixdown"
    /\ Step(wav) = 3
    /\ InputLength(wav) % 3 # 0
    /\ Len(s[1]) = 201

UnsupportedRate(w) == w.samp_freq < sf \/ w.samp_freq % sf # 0

\* C2 as stated: an unsupported rate raises, nothing is written for the
\* utterance, the error reaches the caller, and the failure is fatal for
\* that utterance only: with entries left in the table the run can still go
\* on to read the following one.
C2_FatalForUtteranceOnly ==
    /\ pc \in ResampleAt => ~UnsupportedRate(wav)
    /\ err = "AssertionError" => UnsupportedRate(wav) /\ key \notin SinkKeys
    /\ (pc = "raised" /\ err = "AssertionError" /\ pos < Len(source)) =>
          ENABLED ReaderNext

C2_Inv ==
    /\ pc \in ResampleAt => ~UnsupportedRate(wav)
    /\ err = "AssertionError" =>
          /\ UnsupportedRate(wav)
          /\ key \notin SinkKeys
          /\ pc \in { "exit_writer", "exit_reader", "raised" }
    /\ pc = "raised" => err # "none" /\ ~ENABLED Next

C2_Step ==
    /\ (pc = "assert" /\ UnsupportedRate(wav)) =>
          err' = "AssertionError" /\ pc' = "exit_writer"
    /\ err = "AssertionError" =>
          /\ err' = err
          /\ sink' = sink
          /\ pos' = pos
          /\ key' = key

\* C2 as amended: an utterance that reaches the rate assertions with
\* samp_freq < sf or samp_freq % sf # 0 raises (AssertionError); nothing is
\* written for it, the error reaches the caller, and it ends the whole run:
\* no later entry is read or written, the records already written are kept.
C2_RateFailureEndsRun == []C2_Inv /\ [][C2_Step]_vars

\* C2 witness: the run ended on a rate assertion with a record already
\* written and an entry of the table still unread.
C2_Witness ==
    /\ pc = "raised"
    /\ err = "AssertionError"
    /\ Len(sink) = 1
    /\ pos < Len(source)

\* the waveform behind the record or loop variable of key k
WaveOf(k) == Load(source[k])

C3_Inv ==
    /\ pc \in PipelineAt => ~RatLess(Duration(wav), min_duration)
    /\ \A k \in SinkKeys : ~RatLess(Duration(WaveOf(k)), min_duration)
    /\ err \in { "AssertionError", "ValueError" } =>
          ~RatLess(Duration(wav), min_duration)

C3_Step ==
    pc = "duration" =>
        /\ sink' = sink
        /\ err' = err
        /\ s' = s /\ m' = m /\ f' = f
        /\ IF InputLength(wav) * min_duration[2] < min_duration[1] * wav.samp_freq
           THEN pc' = "iter"
           ELSE pc' = "assert"

\* C3: the duration test comes first: an utterance with duration below
\* min_duration goes back to the reader with nothing computed, written or
\* raised; one with duration >= min_duration (equal included, and every one
\* under the default 0.0) goes on to the rate assertions.
C3_MinDurationFilter == []C3_Inv /\ [][C3_Step]_vars

\* C3 witness: under a positive threshold one utterance was filtered out
\* and one whose duration equals the threshold was written.
C3_Witness ==
    /\ pc = "done"
    /\ min_duration[1] > 0
    /\ \E i \in 1..pos :
          /\ source[i].readable
          /\ RatLess(Duration(WaveOf(i)), min_duration)
          /\ i \notin SinkKeys
    /\ \E k \in SinkKeys :
          Duration(WaveOf(k))[1] * min_duration[2]
              = min_duration[1] * Duration(WaveOf(k))[2]

\* indices of the entries after position p that can be loaded
ReadableAfter(p) == { i \in (p + 1)..Len(source) : source[i].readable }

Least(S) == CHOOSE x \in S : \A y \in S : x <= y

C4_Inv ==
    /\ err = "KaldiFatalError" =>
          /\ ~permissive
          /\ pos < Len(source)
          /\ ~source[pos + 1].readable
          /\ pc \in { "exit_writer", "exit_reader", "raised" }
    /\ \A k \in SinkKeys : source[k].readable
    /\ permissive => err # "KaldiFatalError"

C4_Step ==
    /\ pc = "iter" =>
          /\ sink' = sink
          /\ IF permissive
             THEN IF ReadableAfter(pos) = {}
                  THEN pc' = "exit_writer" /\ err' = "none"
                  ELSE /\ pc' = "duration"
                       /\ key' = Least(ReadableAfter(pos))
                       /\ wav' = WaveOf(key')
                       /\ err' = "none"
             ELSE IF pos = Len(source)
                  THEN pc' = "exit_writer" /\ err' = "none"
                  ELSE IF source[pos + 1].readable
                       THEN pc' = "duration" /\ key' = pos + 1 /\ err' = "none"
                       ELSE pc' = "exit_writer" /\ err' = "KaldiFatalError"
    /\ err = "KaldiFatalError" => err' = err /\ sink' = sink /\ pos' = pos

\* C4: without the permissive option an entry that fails to load raises
\* (KaldiFatalError) out of the block, is not passed over, and nothing is
\* written for it; with the permissive option the entry is passed over and
\* the entries after it are still read.
C4_ReadFailure == []C4_Inv /\ [][C4_Step]_vars

\* C4 witness: in permissive mode an entry failed to load and a later entry
\* was read and written.
C4_Witness ==
    /\ permissive
    /\ \E i \in 1..Len(source) :
          /\ ~source[i].readable
          /\ \E k \in SinkKeys : k > i

\* C5: inside the block both handles are open; once the block has been left,
\* normally or by an exception of the reader, of a rate assertion or of the
\* standardization, both are closed; the writer is closed before the reader.
C5_HandlesReleased ==
    /\ pc \in BlockAt => reader = "open" /\ writer = "open"
    /\ pc \in LeftAt => reader = "closed" /\ writer = "closed"
    /\ pc = "exit_reader" => writer = "closed"
    /\ pc = "raised" <=> (err # "none" /\ ~ENABLED Next)
    /\ pc = "done" <=> (err = "none" /\ ~ENABLED Next)

\* C5 witness: the block was left by an exception raised after both handles
\* were open and a record was written.
C5_Witness ==
    /\ pc = "raised"
    /\ err = "ValueError"
    /\ Len(sink) > 0
    /\ reader = "closed"
    /\ writer = "closed"

\* C6: s holds, per channel, the samples of wav at 0-based indices 0, k,
\* 2k, ... below the input length, in order; m holds at every position the
\* arithmetic mean of the channels of s; with one channel m is s[1] exactly.
C6_DownsampleAndMix ==
    /\ pc \in DownsampledAt =>
          LET k == wav.samp_freq \div sf
              n == InputLength(wav)
          IN  /\ Len(s) = Len(wav.data)
              /\ \A c \in 1..Len(s) :
                    /\ \A j \in 1..Len(s[c]) : s[c][j] = wav.data[c][(j - 1) * k + 1]
                    /\ \A i \in 0..(n - 1) : i % k = 0 => i \div k < Len(s[c])
                    /\ \A j \in 1..Len(s[c]) : (j - 1) * k < n
    /\ pc \in MixedAt =>
          /\ Len(m) = NumCols(s)
          /\ \A j \in 1..Len(m) :
                /\ m[j].den > 0
                /\ m[j].num * Len(s) = m[j].den * ColumnSum(s, j, Len(s))
          /\ Len(s) = 1 => \A j \in 1..Len(m) : m[j].den = 1 /\ m[j].num = s[1][j]

\* C6 witness: a stereo waveform was decimated by 3 and mixed down to a
\* mean that is not an integer.
C6_Witness ==
    /\ pc = "features"
    /\ Len(s) = 2
    /\ wav.samp_freq = 3 * sf
    /\ \E j \in 1..Len(m) : m[j].den = 2

\* C7: f has floor((n - 200) / 80) + 1 rows for a mono signal of n >= 200
\* samples (one row for n = 200), no row for n < 200, and every row has 13
\* coefficients; 2 s at 16 kHz give floor((8000*2 - 200)/80) + 1 rows, and
\* the recorded 1 x 23001 waveform at 16 kHz gives 142 rows.
C7_FrameCount ==
    pc \in { "scale", "write" } =>
        LET n == Len(m)
        IN  /\ n >= 200 => Len(f) = (n - 200) \div 80 + 1
            /\ n = 200 => Len(f) = 1
            /\ n < 200 => Len(f) = 0
            /\ \A t \in 1..Len(f) : Len(f[t]) = 13
            /\ (wav.samp_freq = 16000 /\ InputLength(wav) = 2 * 16000) =>
                  Len(f) = (8000 * 2 - 200) \div 80 + 1
            /\ (wav.samp_freq = 16000 /\ InputLength(wav) = 23001) =>
                  Len(f) = 142

\* C7 witness: the features of the recorded 1 x 23001 waveform were computed.
C7_Witness ==
    /\ pc = "write"
    /\ wav.samp_freq = 16000
    /\ InputLength(wav) = 23001
    /\ Len(f) = 142

C9_Inv ==
    /\ (pc = "scale" /\ Len(m) < WindowSize) => Len(f) = 0 /\ err = "none"
    /\ (pc \in { "features", "scale" } /\ InputLength(wav) = 0) =>
          Len(m) = 0 /\ err = "none"
    /\ err = "ValueError" =>
          /\ Len(f) = 0
          /\ Len(m) < WindowSize
          /\ key \notin SinkKeys
          /\ pc \in { "exit_writer", "exit_reader", "raised" }
    /\ \A i \in 1..Len(sink) : Len(sink[i].value) > 0

C9_Step ==
    /\ (pc = "scale" /\ Len(f) = 0) =>
          err' = "ValueError" /\ sink' = sink /\ f' = f
    /\ err = "ValueError" => err' = err /\ sink' = sink /\ key' = key

\* C9: a waveform with no sample, or with fewer samples than one frame
\* after downsampling, passes the feature computation without error and
\* gives a matrix without rows; the standardization of that matrix raises
\* (ValueError), and no record is written for the utterance.
C9_EmptyUtterance == []C9_Inv /\ [][C9_Step]_vars

\* C9 witness: the run ended on the standardization of the features of a
\* waveform with zero samples.
C9_Witness ==
    /\ pc = "raised"
    /\ err = "ValueError"
    /\ InputLength(wav) = 0
    /\ Len(f) = 0

IsPrefix(a, b) == Len(a) <= Len(b) /\ SubSeq(b, 1, Len(a)) = a

C10_Inv ==
    /\ \A i \in 1..Len(sink) : sink[i].key \in 1..pos
    /\ \A i, j \in 1..Len(sink) : i < j => sink[i].key < sink[j].key
    /\ \A i \in 1..Len(sink) : pc \in PipelineAt => sink[i].key < key
    /\ \A i \in 1..Len(sink) :
          LET w == WaveOf(sink[i].key)
          IN  /\ source[sink[i].key].readable
              /\ ~RatLess(Duration(w), min_duration)
              /\ ~UnsupportedRate(w)
              /\ sink[i].value # <<>>
              /\ \A t \in 1..Len(sink[i].value) :
                    \A c \in 1..Len(sink[i].value[t]) : sink[i].value[t][c].std

C10_Step ==
    /\ IsPrefix(sink, sink')
    /\ Len(sink') <= Len(sink) + 1
    /\ pos' >= pos
    /\ sink' # sink =>
          /\ pc = "write"
          /\ err = "none"
          /\ sink'[Len(sink')].key = key
          /\ key = pos
          /\ sink'[Len(sink')].value = f
          /\ Len(f) = (Len(m) - WindowSize) \div WindowShift + 1
          /\ Len(m) = NumCols(s)
          /\ ~UnsupportedRate(wav)
          /\ ~RatLess(Duration(wav), min_duration)
    /\ err # "none" => err' = err /\ sink' = sink /\ pos' = pos

\* C10: the keys of the sink are a subsequence, in table order, of the keys
\* read so far; a record is appended only by the write step, under the key
\* of the current utterance, once its duration test, rate assertions,
\* downsampling, mix-down, feature computation and standardization are
\* done; once a step has raised, nothing more is read or written and the
\* records written stay.
C10_SinkOrder == []C10_Inv /\ [][C10_Step]_vars

\* C10 witness: the first utterance was passed over, the second written and
\* the third raised.
C10_Witness ==
    /\ pc = "raised"
    /\ pos = 3
    /\ Len(sink) = 1
    /\ sink[1].key = 2

===========================================================================
